---- MODULE Spec2Model ----
(***************************************************************************)
(* AgentNet: the parallel gym environment pool (EnvPool.interact and       *)
(* EnvPool.evaluate) and the Q-learning objective (get_reference_Qvalues,  *)
(* get_elementwise_objective).                                             *)
(*                                                                         *)
(* Slots, ticks and memory channels are numbered from 1 here (python       *)
(* numbers them from 0): slot s of the model is envs[s-1], tick t of the   *)
(* model is loop iteration i = t-1.                                        *)
(***************************************************************************)
EXTENDS Integers, Sequences, FiniteSets, TLC

\* ---------------------------------------------------------------- bounds
n_games == 2      \* number of parallel games of the pool
MaxSteps == 3     \* ticks one pool may be driven for, over all interact calls
NMem == 2         \* number of agent memory channels (len(agent.agent_states))

Slots == 1..n_games
Channels == 1..NMem
ActionIds == {0, 1}

VARIABLES
    envs,                \* EnvPool.envs: each environment's internal state
    prev_observations,   \* EnvPool.prev_observations
    prev_memory_states,  \* EnvPool.prev_memory_states [channel][slot]
    pc,                  \* position inside interact
    n_steps,             \* argument of the running interact call
    i,                   \* outer loop counter (ticks completed in this call)
    k,                   \* slot the map / the inner loop is at
    actions,             \* agent output of this tick
    new_memory_states,   \* agent output of this tick, zeroed in place
    step_results,        \* results of env.step gathered by the map so far
    new_observations,    \* np.array(new_observations)
    history_log,         \* list of per-tick tuples
    outcome,             \* how the last interact call ended
    result,              \* what the last interact call returned
    ticks_used,          \* ticks started on this pool so far
    tick_start,          \* pool and environments as they were when the tick began
    calls,               \* calls made on the agent and the environments in this call
    q_pc,                \* position of the call of get_elementwise_objective
    q_in,                \* arguments of get_elementwise_objective
    q_out,               \* what get_elementwise_objective computed
    ev_pc,               \* position inside evaluate
    ev_n_games,          \* argument n_games of the evaluate call
    ev_t_max,            \* argument t_max of the evaluate call
    ev_env,              \* evaluate's env = self.make_env()
    ev_observation,      \* evaluate's observation
    ev_prev_memories,    \* evaluate's prev_memories [channel][1]
    ev_t,                \* evaluate's t
    ev_total_reward,     \* evaluate's total_reward
    ev_game_rewards,     \* evaluate's game_rewards
    ev_games             \* per game: what it started from and the steps it took

poolvars == <<envs, prev_observations, prev_memory_states, pc, n_steps, i, k,
              actions, new_memory_states, step_results, new_observations,
              history_log, outcome, result, ticks_used, tick_start, calls>>

qvars == <<q_pc, q_in, q_out>>

evars == <<ev_pc, ev_n_games, ev_t_max, ev_env, ev_observation, ev_prev_memories,
           ev_t, ev_total_reward, ev_game_rewards, ev_games>>

vars == <<poolvars, qvars, evars>>

\* --------------------------------------------------- the gym environment
\* A stub environment: its state is the episode number and the number of
\* steps taken in the episode, and the observation shows the whole state.
make_env == [ep |-> 0, age |-> 0]

EnvReset(env) == [ep |-> env.ep + 1, age |-> 0]

EnvStep(env) == [ep |-> env.ep, age |-> env.age + 1]

EnvObservation(env) == env

EnvReward(env, a) == a + env.age

EnvInfo(s, env) == [env |-> s, ep |-> env.ep, age |-> env.age]

\* ------------------------------------------------------------- the agent
\* A stub agent: the action and the recurrent state its step function
\* returns for one slot are functions of its inputs for that slot.
AgentMemory(m, obs, mem) == (mem + obs.age + m) % 3

AgentAction(s, obs, mems) == (s + obs[s].age + obs[s].ep + mems[1][s]) % 2

AgentOutput(obs, mems) ==
    [m \in Channels |-> [s \in Slots |-> AgentMemory(m, obs[s], mems[m][s])]]

\* ------------------------------------------------------------ the pool
NoResult == [observation_log |-> <<>>, action_log |-> <<>>, reward_log |-> <<>>,
             memories_log |-> <<>>, is_alive_log |-> <<>>, info_log |-> <<>>]

NoTick == [envs |-> <<>>, prev_observations |-> <<>>, prev_memory_states |-> <<>>]

NoInput == [given |-> FALSE]

NoOutput == [ok |-> FALSE, reference |-> <<>>, loss |-> <<>>]

PoolInit ==
    /\ envs = [s \in Slots |-> EnvReset(make_env)]
    /\ prev_observations = [s \in Slots |-> EnvObservation(EnvReset(make_env))]
    /\ prev_memory_states = [m \in Channels |-> [s \in Slots |-> 0]]
    /\ pc = "idle"
    /\ n_steps = 0
    /\ i = 0
    /\ k = 1
    /\ actions = <<>>
    /\ new_memory_states = <<>>
    /\ step_results = <<>>
    /\ new_observations = <<>>
    /\ history_log = <<>>
    /\ outcome = "none"
    /\ result = NoResult
    /\ ticks_used = 0
    /\ tick_start = NoTick
    /\ calls = <<>>

\* no evaluate call
EvalOff ==
    /\ ev_pc = "off"
    /\ ev_n_games = 0
    /\ ev_t_max = 0
    /\ ev_env = make_env
    /\ ev_observation = make_env
    /\ ev_prev_memories = <<>>
    /\ ev_t = 0
    /\ ev_total_reward = 0
    /\ ev_game_rewards = <<>>
    /\ ev_games = <<>>

Init ==
    /\ PoolInit
    /\ q_pc = "off"
    /\ q_in = NoInput
    /\ q_out = NoOutput
    /\ EvalOff

LoopContinuesInclusive(done_ticks, n) == done_ticks <= n

\* for i in range(n_steps): whether the loop body runs once i ticks are done
LoopContinues(done_ticks, n) == done_ticks < n

InteractRezeroing(n) ==
    /\ pc = "idle"
    /\ n <= MaxSteps - ticks_used
    /\ n_steps' = n
    /\ i' = 0
    /\ k' = 1
    /\ history_log' = <<>>
    /\ calls' = <<>>
    /\ outcome' = "running"
    /\ result' = NoResult
    /\ tick_start' = NoTick
    /\ pc' = IF LoopContinues(0, n) THEN "agent" ELSE "return"
    /\ prev_memory_states' = [m \in Channels |-> [s \in Slots |-> 0]]
    /\ UNCHANGED <<envs, prev_observations, actions,
                   new_memory_states, step_results, new_observations, ticks_used>>
    /\ UNCHANGED <<qvars, evars>>

\* interact(n_steps): history_log = [] and the loop header
Interact(n) ==
    /\ pc = "idle"
    /\ n <= MaxSteps - ticks_used
    /\ n_steps' = n
    /\ i' = 0
    /\ k' = 1
    /\ history_log' = <<>>
    /\ calls' = <<>>
    /\ outcome' = "running"
    /\ result' = NoResult
    /\ tick_start' = NoTick
    /\ pc' = IF LoopContinues(0, n) THEN "agent" ELSE "return"
    /\ UNCHANGED <<envs, prev_observations, prev_memory_states, actions,
                   new_memory_states, step_results, new_observations, ticks_used>>
    /\ UNCHANGED <<qvars, evars>>

\* res = self.agent_step(self.prev_observations, *self.prev_memory_states)
AgentStep ==
    /\ pc = "agent"
    /\ actions' = [s \in Slots |-> AgentAction(s, prev_observations, prev_memory_states)]
    /\ new_memory_states' = AgentOutput(prev_observations, prev_memory_states)
    /\ tick_start' = [envs |-> envs, prev_observations |-> prev_observations,
                      prev_memory_states |-> prev_memory_states]
    /\ calls' = Append(calls, [op |-> "agent", tick |-> i + 1, slot |-> 0,
                               args |-> [obs |-> prev_observations,
                                         mem |-> prev_memory_states],
                               ret |-> [actions |-> [s \in Slots |->
                                            AgentAction(s, prev_observations,
                                                        prev_memory_states)],
                                        mem |-> AgentOutput(prev_observations,
                                                            prev_memory_states)]])
    /\ ticks_used' = ticks_used + 1
    /\ step_results' = <<>>
    /\ k' = 1
    /\ pc' = "step"
    /\ UNCHANGED <<envs, prev_observations, prev_memory_states, n_steps, i,
                   new_observations, history_log, outcome, result>>
    /\ UNCHANGED <<qvars, evars>>

\* one application of lambda env, action: env.step(action) by the map
EnvStepOk(done) ==
    /\ pc = "step"
    /\ k <= n_games
    /\ LET env == EnvStep(envs[k])
           res == [obs |-> EnvObservation(env),
                   reward |-> EnvReward(envs[k], actions[k]),
                   done |-> done,
                   info |-> EnvInfo(k, env)]
       IN /\ envs' = [envs EXCEPT ![k] = env]
          /\ step_results' = Append(step_results, res)
          /\ calls' = Append(calls, [op |-> "step", tick |-> i + 1, slot |-> k,
                                     args |-> actions[k], ret |-> res])
    /\ k' = k + 1
    /\ UNCHANGED <<prev_observations, prev_memory_states, pc, n_steps, i,
                   actions, new_memory_states, new_observations, history_log,
                   outcome, result, ticks_used, tick_start>>
    /\ UNCHANGED <<qvars, evars>>

EnvStepRaiseSwallowed ==
    /\ pc = "step"
    /\ k <= n_games
    /\ outcome = "running"
    /\ outcome' = "raised"
    /\ UNCHANGED <<envs, prev_observations, prev_memory_states, pc, n_steps, i, k,
                   actions, new_memory_states, step_results, new_observations,
                   history_log, result, ticks_used, tick_start, calls>>
    /\ UNCHANGED <<qvars, evars>>

\* env.step(action) raises: nothing in interact catches it
EnvStepRaise ==
    /\ pc = "step"
    /\ k <= n_games
    /\ pc' = "idle"
    /\ outcome' = "raised"
    /\ UNCHANGED <<envs, prev_observations, prev_memory_states, n_steps, i, k,
                   actions, new_memory_states, step_results, new_observations,
                   history_log, result, ticks_used, tick_start, calls>>
    /\ UNCHANGED <<qvars, evars>>

\* new_observations = np.array(new_observations), once the map is exhausted
StackObservations ==
    /\ pc = "step"
    /\ k > n_games
    /\ new_observations' = [s \in Slots |-> step_results[s].obs]
    /\ k' = 1
    /\ pc' = "reset"
    /\ UNCHANGED <<envs, prev_observations, prev_memory_states, n_steps, i,
                   actions, new_memory_states, step_results, history_log,
                   outcome, result, ticks_used, tick_start, calls>>
    /\ UNCHANGED <<qvars, evars>>

\* inner loop body, is_done[i] false
KeepSlot ==
    /\ pc = "reset"
    /\ k <= n_games
    /\ ~step_results[k].done
    /\ k' = k + 1
    /\ UNCHANGED <<envs, prev_observations, prev_memory_states, pc, n_steps, i,
                   actions, new_memory_states, step_results, new_observations,
                   history_log, outcome, result, ticks_used, tick_start, calls>>
    /\ UNCHANGED <<qvars, evars>>

ZeroMemoryNone(mems, s) == mems

ZeroMemoryAll(mems, s) == [m \in Channels |-> [s2 \in Slots |-> 0]]

\* for m_i in range(len(new_memory_states)): new_memory_states[m_i][i] = 0
ZeroMemory(mems, s) == [m \in Channels |-> [mems[m] EXCEPT ![s] = 0]]

\* inner loop body, is_done[i] true
ResetSlot ==
    /\ pc = "reset"
    /\ k <= n_games
    /\ step_results[k].done
    /\ LET env == EnvReset(envs[k])
       IN /\ envs' = [envs EXCEPT ![k] = env]
          /\ new_observations' = [new_observations EXCEPT ![k] = EnvObservation(env)]
          /\ calls' = Append(calls, [op |-> "reset", tick |-> i + 1, slot |-> k,
                                     args |-> <<>>, ret |-> EnvObservation(env)])
    /\ new_memory_states' = ZeroMemory(new_memory_states, k)
    /\ k' = k + 1
    /\ UNCHANGED <<prev_observations, prev_memory_states, pc, n_steps, i,
                   actions, step_results, history_log, outcome, result,
                   ticks_used, tick_start>>
    /\ UNCHANGED <<qvars, evars>>

\* self.envs[i].reset() raises
ResetRaise ==
    /\ pc = "reset"
    /\ k <= n_games
    /\ step_results[k].done
    /\ pc' = "idle"
    /\ outcome' = "raised"
    /\ UNCHANGED <<envs, prev_observations, prev_memory_states, n_steps, i, k,
                   actions, new_memory_states, step_results, new_observations,
                   history_log, result, ticks_used, tick_start, calls>>
    /\ UNCHANGED <<qvars, evars>>

AppendTickUnzeroed ==
    /\ pc = "reset"
    /\ k > n_games
    /\ history_log' = Append(history_log,
           [obs |-> prev_observations,
            actions |-> actions,
            rewards |-> [s \in Slots |-> step_results[s].reward],
            memories |-> AgentOutput(prev_observations, prev_memory_states),
            is_done |-> [s \in Slots |-> step_results[s].done],
            infos |-> [s \in Slots |-> step_results[s].info]])
    /\ prev_observations' = new_observations
    /\ prev_memory_states' = new_memory_states
    /\ i' = i + 1
    /\ k' = 1
    /\ pc' = IF LoopContinues(i + 1, n_steps) THEN "agent" ELSE "return"
    /\ UNCHANGED <<envs, n_steps, actions, new_memory_states, step_results,
                   new_observations, outcome, result, ticks_used, tick_start,
                   calls>>
    /\ UNCHANGED <<qvars, evars>>

\* history_log.append(...); self.prev_observations = ...; self.prev_memory_states = ...
AppendTick ==
    /\ pc = "reset"
    /\ k > n_games
    /\ history_log' = Append(history_log,
           [obs |-> prev_observations,
            actions |-> actions,
            rewards |-> [s \in Slots |-> step_results[s].reward],
            memories |-> new_memory_states,
            is_done |-> [s \in Slots |-> step_results[s].done],
            infos |-> [s \in Slots |-> step_results[s].info]])
    /\ prev_observations' = new_observations
    /\ prev_memory_states' = new_memory_states
    /\ i' = i + 1
    /\ k' = 1
    /\ pc' = IF LoopContinues(i + 1, n_steps) THEN "agent" ELSE "return"
    /\ UNCHANGED <<envs, n_steps, actions, new_memory_states, step_results,
                   new_observations, outcome, result, ticks_used, tick_start,
                   calls>>
    /\ UNCHANGED <<qvars, evars>>

SwapAxesNot(log, field) ==
    [t \in 1..Len(log) |-> [s \in Slots |-> log[t][field][s]]]

\* np.array(log).swapaxes(0, 1) of one column of history_log
SwapAxes(log, field) ==
    [s \in Slots |-> [t \in 1..Len(log) |-> log[t][field][s]]]

\* map(lambda mem: np.array(mem).swapaxes(0, 1), zip(*memories_log))
SwapMemories(log) ==
    [m \in Channels |-> [s \in Slots |-> [t \in 1..Len(log) |-> log[t].memories[m][s]]]]

IsAliveBeforeTick(log) ==
    [s \in Slots |-> [t \in 1..Len(log) |->
        IF t > 1 /\ log[t - 1].is_done[s] THEN 0 ELSE 1]]

IsAliveNotComplemented(log) ==
    [s \in Slots |-> [t \in 1..Len(log) |-> IF log[t].is_done[s] THEN 1 ELSE 0]]

\* 1 - np.array(is_done_log, dtype='int8').swapaxes(0, 1)
IsAlive(log) ==
    [s \in Slots |-> [t \in 1..Len(log) |-> 1 - (IF log[t].is_done[s] THEN 1 ELSE 0)]]

\* the code after the loop: zip(*history_log) cannot be unpacked into six
\* names when history_log is empty
Return ==
    /\ pc = "return"
    /\ IF Len(history_log) = 0
       THEN /\ outcome' = "value_error"
            /\ result' = NoResult
       ELSE /\ outcome' = "returned"
            /\ result' = [observation_log |-> SwapAxes(history_log, "obs"),
                          action_log |-> SwapAxes(history_log, "actions"),
                          reward_log |-> SwapAxes(history_log, "rewards"),
                          memories_log |-> SwapMemories(history_log),
                          is_alive_log |-> IsAlive(history_log),
                          info_log |-> [t \in 1..Len(history_log) |-> history_log[t].infos]]
    /\ pc' = "idle"
    /\ UNCHANGED <<envs, prev_observations, prev_memory_states, n_steps, i, k,
                   actions, new_memory_states, step_results, new_observations,
                   history_log, ticks_used, tick_start, calls>>
    /\ UNCHANGED <<qvars, evars>>

Next ==
    \/ \E n \in 0..MaxSteps : Interact(n)
    \/ AgentStep
    \/ \E done \in BOOLEAN : EnvStepOk(done)
    \/ EnvStepRaise
    \/ StackObservations
    \/ KeepSlot
    \/ ResetSlot
    \/ ResetRaise
    \/ AppendTick
    \/ Return

Spec == Init /\ [][Next]_vars

TypeOK ==
    /\ pc \in {"idle", "agent", "step", "reset", "return"}
    /\ outcome \in {"none", "running", "returned", "raised", "value_error"}
    /\ i \in 0..MaxSteps
    /\ ticks_used \in 0..MaxSteps

\* ------------------------------------------------------------ Q-learning
\* Tensors are [slot][tick] and [slot][tick][action]; real numbers are
\* modelled by integers, for which the arithmetic of the code is exact.
QBatch == 2       \* number of sessions in a batch
QTicks == 3       \* number of ticks of a session

QSlots == 1..QBatch
QTickIds == 1..QTicks
QSeeds == {0, 1}

MaxOf(S) == CHOOSE x \in S : \A y \in S : y <= x

MinOf(S) == CHOOSE x \in S : \A y \in S : y >= x

AggregateMin(agg, qv) ==
    IF agg = "max"
    THEN [s \in DOMAIN qv |-> [t \in DOMAIN qv[s] |->
             MinOf({qv[s][t][a] : a \in DOMAIN qv[s][t]})]]
    ELSE qv

\* aggregation_function applied to a [slot][tick][action] tensor:
\* "max" is the default lambda qv: T.max(qv, axis=2); "identity" is a
\* function that does not reduce the action axis, lambda qv: qv
Aggregate(agg, qv) ==
    IF agg = "max"
    THEN [s \in DOMAIN qv |-> [t \in DOMAIN qv[s] |->
             MaxOf({qv[s][t][a] : a \in DOMAIN qv[s][t]})]]
    ELSE qv

DiscountOfScalarOnly(gamma, s, t) ==
    IF gamma.kind = "scalar" THEN gamma.val ELSE 1

\* gamma_or_gammas broadcast to position [s, t]
Discount(gamma, s, t) ==
    IF gamma.kind = "scalar" THEN gamma.val ELSE gamma.val[s][t]

\* T.zeros_like(Qvalues[:, 0, None, :])
ZerosLike(Qvalues) ==
    [s \in DOMAIN Qvalues |-> <<[a \in DOMAIN Qvalues[s][1] |-> 0]>>]

\* Whether rewards + gamma_or_gammas * optimal_next_Qvalue can be evaluated.
\* A [slot][tick][action] optimal_next_Qvalue meets the [slot][tick] rewards
\* aligned on the right: the slots of rewards against the ticks and the
\* ticks of rewards against the actions, which must then be as many.
BroadcastOk(Qvalues, rewards, aggregation_function) ==
    \/ aggregation_function = "max"
    \/ /\ Len(rewards) = Len(Qvalues[1])
       /\ Len(rewards[1]) = Cardinality(DOMAIN Qvalues[1][1])

get_reference_Qvalues(Qvalues, acts, rewards, gamma_or_gammas, qvalues_after_end, aggregation_function) ==
    LET after_end == IF qvalues_after_end.kind = "zeros"
                     THEN ZerosLike(Qvalues)
                     ELSE qvalues_after_end.val
        next_Qvalues_predicted ==
            [s \in DOMAIN Qvalues |-> Tail(Qvalues[s]) \o after_end[s]]
        optimal_next_Qvalue ==
            Aggregate(aggregation_function, next_Qvalues_predicted)
    IN IF aggregation_function = "max"
       THEN [s \in DOMAIN rewards |-> [t \in DOMAIN rewards[s] |->
                rewards[s][t]
                  + Discount(gamma_or_gammas, s, t) * optimal_next_Qvalue[s][t]]]
       ELSE [s \in DOMAIN optimal_next_Qvalue |->
             [t \in DOMAIN optimal_next_Qvalue[s] |->
              [a \in DOMAIN optimal_next_Qvalue[s][t] |->
                rewards[t][a + 1]
                  + Discount(gamma_or_gammas, t, a + 1) * optimal_next_Qvalue[s][t][a]]]]

\* helpers.get_action_Qvalues: the Q-value of the action taken at [slot, tick]
get_action_Qvalues(Qvalues, acts) ==
    [s \in DOMAIN Qvalues |-> [t \in DOMAIN Qvalues[s] |-> Qvalues[s][t][acts[s][t]]]]

\* the tick at which the session of one slot ends: the earliest alive tick
\* whose immediate successor is dead, or the last tick if there is none
EndTick(alive_row) ==
    LET T == Len(alive_row)
        ends == {t \in 1..(T - 1) : alive_row[t] = 1 /\ alive_row[t + 1] = 0}
    IN IF ends = {} THEN T ELSE CHOOSE t \in ends : \A u \in ends : t <= u

\* helpers.get_end_indicator(is_alive, force_end_at_t_max=True)
get_end_indicator(is_alive) ==
    [s \in DOMAIN is_alive |-> [t \in DOMAIN is_alive[s] |->
        IF t = EndTick(is_alive[s]) THEN 1 ELSE 0]]

\* matrix.nonzero(): the positions of the nonzero entries, row after row
Nonzero(matrix) ==
    LET B == Len(matrix)
        T == IF B = 0 THEN 0 ELSE Len(matrix[1])
        all == [j \in 1..(B * T) |-> <<((j - 1) \div T) + 1, ((j - 1) % T) + 1>>]
        IsSet(pos) == matrix[pos[1]][pos[2]] # 0
    IN SelectSeq(all, IsSet)

\* matrix[end_ids]
Subtensor(matrix, ids) == [j \in 1..Len(ids) |-> matrix[ids[j][1]][ids[j][2]]]

SetSubtensorNone(matrix, ids, values) == matrix

\* T.set_subtensor(matrix[end_ids], values)
SetSubtensor(matrix, ids, values) ==
    [s \in DOMAIN matrix |-> [t \in DOMAIN matrix[s] |->
        IF \E j \in 1..Len(ids) : ids[j] = <<s, t>>
        THEN values[CHOOSE j \in 1..Len(ids) : ids[j] = <<s, t>>]
        ELSE matrix[s][t]]]

\* rewards[end_ids] + gamma_or_gammas * last_optimal_rewards[end_ids[0], 0]
\* for a scalar gamma_or_gammas
EndValues(rewards, gamma_or_gammas, last_optimal_rewards, ids) ==
    [j \in 1..Len(ids) |->
        rewards[ids[j][1]][ids[j][2]]
          + gamma_or_gammas.val * last_optimal_rewards[ids[j][1]][1]]

\* lasagne.objectives.squared_error
squared_error(a, b) ==
    [s \in DOMAIN a |-> [t \in DOMAIN a[s] |-> (a[s][t] - b[s][t]) * (a[s][t] - b[s][t])]]

MaskLossNot(loss, is_alive) == loss

\* elwise_squared_error * is_alive
MaskLoss(loss, is_alive) ==
    [s \in DOMAIN loss |-> [t \in DOMAIN loss[s] |-> loss[s][t] * is_alive[s][t]]]

CropLastNot(loss) == loss

\* T.set_subtensor(elwise_squared_error[:, -1], 0)
CropLast(loss) ==
    [s \in DOMAIN loss |-> [t \in DOMAIN loss[s] |->
        IF t = Len(loss[s]) THEN 0 ELSE loss[s][t]]]

\* The reference Q-values the loss is taken against (reference_Qvalues at
\* line 149 or 122).  With an is_alive mask, force_qvalues_after_end and a
\* qvalues_after_end tensor, a [batch, tick] gamma_or_gammas makes the value
\* handed to set_subtensor two-dimensional where reference_Qvalues[end_ids]
\* has one dimension: the call fails.
ObjectiveReference(in) ==
    LET Qvalues_target == IF in.Qvalues_target.kind = "none"
                          THEN in.Qvalues ELSE in.Qvalues_target.val
        reference_Qvalues ==
            get_reference_Qvalues(Qvalues_target, in.actions, in.rewards,
                                  in.gamma_or_gammas, in.qvalues_after_end,
                                  in.aggregation_function)
    IN IF in.is_alive.kind = "always" \/ ~in.force_qvalues_after_end
       THEN [ok |-> TRUE, val |-> reference_Qvalues]
       ELSE LET end_ids == Nonzero(get_end_indicator(in.is_alive.val))
            IN IF in.qvalues_after_end.kind = "zeros"
               THEN [ok |-> TRUE,
                     val |-> SetSubtensor(reference_Qvalues, end_ids,
                                          Subtensor(in.rewards, end_ids))]
               ELSE IF in.gamma_or_gammas.kind = "tensor"
               THEN [ok |-> FALSE, val |-> <<>>]
               ELSE [ok |-> TRUE,
                     val |-> SetSubtensor(reference_Qvalues, end_ids,
                                 EndValues(in.rewards, in.gamma_or_gammas,
                                     Aggregate(in.aggregation_function,
                                               in.qvalues_after_end.val),
                                     end_ids))]

get_elementwise_objective(in) ==
    LET reference == ObjectiveReference(in)
        action_Qvalues == get_action_Qvalues(in.Qvalues, in.actions)
    IN IF ~reference.ok
       THEN NoOutput
       ELSE LET elwise_squared_error ==
                    IF in.is_alive.kind = "always"
                    THEN squared_error(reference.val, action_Qvalues)
                    ELSE MaskLoss(squared_error(reference.val, action_Qvalues),
                                  in.is_alive.val)
            IN [ok |-> TRUE,
                reference |-> reference.val,
                loss |-> IF in.crop_last
                         THEN CropLast(elwise_squared_error)
                         ELSE elwise_squared_error]

\* the batches the objective is applied to
QGen(seed, s, t, a) == (((seed + 1) * (s + 2 * t) + 3 * a * (seed + t)) % 5) - 1

RGen(seed, s, t) == (seed + s * t) % 3

AGen(seed, s, t) == (seed + s + t) % 2

QTensor(seed) ==
    [s \in QSlots |-> [t \in QTickIds |-> [a \in ActionIds |-> QGen(seed, s, t, a)]]]

QGammas ==
    {[kind |-> "scalar", val |-> 2],
     [kind |-> "tensor", val |-> [s \in QSlots |-> [t \in QTickIds |-> 2]]],
     [kind |-> "tensor", val |-> [s \in QSlots |-> [t \in QTickIds |-> 1 + ((s + t) % 3)]]]}

QAfterEnd ==
    {[kind |-> "zeros"],
     [kind |-> "tensor", val |-> [s \in QSlots |-> <<[a \in ActionIds |-> s + 2 * a]>>]]}

\* the masks: any row for the odd slots and any row for the even slots
QAlive ==
    {[kind |-> "always"]} \cup
    {[kind |-> "mask", val |-> [s \in QSlots |-> rows[s % 2]]] :
        rows \in [{0, 1} -> [QTickIds -> {0, 1}]]}

QInputs ==
    {[given |-> TRUE,
      Qvalues |-> QTensor(seed),
      actions |-> [s \in QSlots |-> [t \in QTickIds |-> AGen(seed, s, t)]],
      rewards |-> [s \in QSlots |-> [t \in QTickIds |-> RGen(seed, s, t)]],
      is_alive |-> alive,
      Qvalues_target |-> target,
      gamma_or_gammas |-> gamma,
      crop_last |-> crop,
      force_qvalues_after_end |-> force,
      qvalues_after_end |-> after,
      aggregation_function |-> "max"] :
        seed \in QSeeds, alive \in QAlive,
        target \in {[kind |-> "none"], [kind |-> "tensor", val |-> QTensor(3)]},
        gamma \in QGammas, crop \in BOOLEAN, force \in BOOLEAN, after \in QAfterEnd}

\* the batches get_reference_Qvalues is applied to: of the shape of the
\* batches above, or of as many slots and ticks as there are actions
QRefShapes ==
    {<<QBatch, QTicks>>, <<Cardinality(ActionIds), Cardinality(ActionIds)>>}

QRefInputs ==
    {[given |-> TRUE,
      Qvalues |-> [s \in 1..shape[1] |-> [t \in 1..shape[2] |->
                      [a \in ActionIds |-> QGen(seed, s, t, a)]]],
      actions |-> [s \in 1..shape[1] |-> [t \in 1..shape[2] |-> AGen(aseed, s, t)]],
      rewards |-> [s \in 1..shape[1] |-> [t \in 1..shape[2] |-> RGen(seed, s, t)]],
      gamma_or_gammas |->
          IF gk = "scalar"
          THEN [kind |-> "scalar", val |-> 2]
          ELSE [kind |-> "tensor",
                val |-> [s \in 1..shape[1] |-> [t \in 1..shape[2] |-> 1 + ((s + t) % 3)]]],
      qvalues_after_end |->
          IF ak = "zeros"
          THEN [kind |-> "zeros"]
          ELSE [kind |-> "tensor",
                val |-> [s \in 1..shape[1] |-> <<[a \in ActionIds |-> s + 2 * a]>>]],
      aggregation_function |-> agg] :
        shape \in QRefShapes, seed \in QSeeds, aseed \in QSeeds,
        agg \in {"max", "identity"},
        gk \in {"scalar", "tensor"}, ak \in {"zeros", "tensor"}}

InitQ ==
    /\ PoolInit
    /\ \/ q_pc = "input" /\ q_in \in QInputs
       \/ q_pc = "input_ref" /\ q_in \in QRefInputs
    /\ q_out = NoOutput
    /\ EvalOff

\* the call get_reference_Qvalues(Qvalues, actions, rewards, ...) and the
\* evaluation of the expression it returns
ComputeReference ==
    /\ q_pc = "input_ref"
    /\ q_out' = IF BroadcastOk(q_in.Qvalues, q_in.rewards, q_in.aggregation_function)
                THEN [ok |-> TRUE,
                      reference |-> get_reference_Qvalues(q_in.Qvalues, q_in.actions,
                                        q_in.rewards, q_in.gamma_or_gammas,
                                        q_in.qvalues_after_end,
                                        q_in.aggregation_function),
                      loss |-> <<>>]
                ELSE NoOutput
    /\ q_pc' = "ref_done"
    /\ UNCHANGED q_in
    /\ UNCHANGED <<poolvars, evars>>

\* the call get_elementwise_objective(Qvalues, actions, rewards, ...)
ComputeObjective ==
    /\ q_pc = "input"
    /\ q_out' = get_elementwise_objective(q_in)
    /\ q_pc' = "done"
    /\ UNCHANGED q_in
    /\ UNCHANGED <<poolvars, evars>>

NextQ == ComputeObjective \/ ComputeReference

SpecQ == InitQ /\ [][NextQ]_vars

\* ------------------------------------- training on a collected trajectory
\* horizon of the interact call whose trajectory is trained on
TrainSteps == 4

\* the done flags the environments report: slot s reports DoneRows[s % 2][t]
\* at tick t
DoneRows == [{0, 1} -> [1..TrainSteps -> BOOLEAN]]

\* the pool as constructed
PoolStart ==
    [envs |-> [s \in Slots |-> EnvReset(make_env)],
     prev_observations |-> [s \in Slots |-> EnvObservation(EnvReset(make_env))],
     prev_memory_states |-> [m \in Channels |-> [s \in Slots |-> 0]],
     history_log |-> <<>>,
     actions |-> <<>>,
     step_results |-> <<>>,
     tick_start |-> NoTick]

\* one pass of the loop body of interact on the pool p, no call raising,
\* the environment of slot s reporting done[s]
TickOf(p, done) ==
    LET acts == [s \in Slots |->
                    AgentAction(s, p.prev_observations, p.prev_memory_states)]
        mems == AgentOutput(p.prev_observations, p.prev_memory_states)
        stepped == [s \in Slots |-> EnvStep(p.envs[s])]
        res == [s \in Slots |->
                   [obs |-> EnvObservation(stepped[s]),
                    reward |-> EnvReward(p.envs[s], acts[s]),
                    done |-> done[s],
                    info |-> EnvInfo(s, stepped[s])]]
        reset == [s \in Slots |->
                     IF done[s] THEN EnvReset(stepped[s]) ELSE stepped[s]]
        zeroed == [m \in Channels |-> [s \in Slots |->
                      IF done[s] THEN 0 ELSE mems[m][s]]]
    IN [envs |-> reset,
        prev_observations |-> [s \in Slots |->
            IF done[s] THEN EnvObservation(reset[s]) ELSE res[s].obs],
        prev_memory_states |-> zeroed,
        history_log |-> Append(p.history_log,
            [obs |-> p.prev_observations,
             actions |-> acts,
             rewards |-> [s \in Slots |-> res[s].reward],
             memories |-> zeroed,
             is_done |-> done,
             infos |-> [s \in Slots |-> res[s].info]]),
        actions |-> acts,
        step_results |-> res,
        tick_start |-> [envs |-> p.envs,
                        prev_observations |-> p.prev_observations,
                        prev_memory_states |-> p.prev_memory_states]]

\* the pool after the first n ticks of its first interact call
RECURSIVE RunTicks(_, _)
RunTicks(d, n) ==
    IF n = 0
    THEN PoolStart
    ELSE CHOOSE r \in {TickOf(p, [s \in Slots |-> d[s % 2][n]]) :
                           p \in {RunTicks(d, n - 1)}} : TRUE

\* the pool when the loop of interact(n_steps=TrainSteps) has finished
InitT ==
    /\ \E d \in DoneRows : \E run \in {RunTicks(d, TrainSteps)} :
          /\ envs = run.envs
          /\ prev_observations = run.prev_observations
          /\ prev_memory_states = run.prev_memory_states
          /\ actions = run.actions
          /\ new_memory_states = run.prev_memory_states
          /\ step_results = run.step_results
          /\ new_observations = run.prev_observations
          /\ history_log = run.history_log
          /\ tick_start = run.tick_start
    /\ pc = "return"
    /\ n_steps = TrainSteps
    /\ i = TrainSteps
    /\ k = 1
    /\ outcome = "running"
    /\ result = NoResult
    /\ ticks_used = TrainSteps
    /\ calls = <<>>
    /\ q_pc = "off"
    /\ q_in = NoInput
    /\ q_out = NoOutput
    /\ EvalOff

\* get_elementwise_objective on the trajectory interact returned: its
\* rewards, actions and is_alive, with Q-values for its slots and ticks
TrainOnTrajectory(seed, crop) ==
    /\ pc = "idle"
    /\ outcome = "returned"
    /\ q_pc = "off"
    /\ LET in == [given |-> TRUE,
                  Qvalues |-> [s \in Slots |-> [t \in 1..n_steps |->
                                  [a \in ActionIds |-> QGen(seed, s, t, a)]]],
                  actions |-> result.action_log,
                  rewards |-> result.reward_log,
                  is_alive |-> [kind |-> "mask", val |-> result.is_alive_log],
                  Qvalues_target |-> [kind |-> "none"],
                  gamma_or_gammas |-> [kind |-> "scalar", val |-> 2],
                  crop_last |-> crop,
                  force_qvalues_after_end |-> TRUE,
                  qvalues_after_end |-> [kind |-> "zeros"],
                  aggregation_function |-> "max"]
       IN /\ q_in' = in
          /\ q_out' = get_elementwise_objective(in)
    /\ q_pc' = "done"
    /\ UNCHANGED <<poolvars, evars>>

NextT ==
    \/ Return
    \/ \E seed \in QSeeds : \E crop \in BOOLEAN : TrainOnTrajectory(seed, crop)

SpecT == InitT /\ [][NextT]_vars

\* ---------------------------------------------------- EnvPool.evaluate
MaxEvalGames == 2   \* evaluate is called with n_games in 0..MaxEvalGames
MaxTMax == 2        \* and with t_max in 0..MaxTMax

\* self.agent_step(observation[None, ...], *prev_memories): the agent on a
\* batch of the one observation
EvalAgentStep(obs, mems) ==
    [action |-> AgentAction(1, <<obs>>, mems),
     mem |-> [m \in Channels |-> <<AgentMemory(m, obs, mems[m][1])>>]]

BreakGameLate(done, t, t_max) == done \/ t > t_max

\* if done or t >= t_max: break
BreakGame(done, t, t_max) == done \/ t >= t_max

\* a call evaluate(n_games=G, t_max=T) about to begin
InitE ==
    /\ PoolInit
    /\ q_pc = "off"
    /\ q_in = NoInput
    /\ q_out = NoOutput
    /\ ev_pc = "start"
    /\ ev_n_games \in 0..MaxEvalGames
    /\ ev_t_max \in 0..MaxTMax
    /\ ev_env = make_env
    /\ ev_observation = make_env
    /\ ev_prev_memories = <<>>
    /\ ev_t = 0
    /\ ev_total_reward = 0
    /\ ev_game_rewards = <<>>
    /\ ev_games = <<>>

\* env = self.make_env(); game_rewards = []
EvalBegin ==
    /\ ev_pc = "start"
    /\ ev_env' = make_env
    /\ ev_game_rewards' = <<>>
    /\ ev_pc' = "games"
    /\ UNCHANGED <<ev_n_games, ev_t_max, ev_observation, ev_prev_memories, ev_t,
                   ev_total_reward, ev_games>>
    /\ UNCHANGED <<poolvars, qvars>>

\* for _ in range(n_games): the code of one iteration before its while loop
EvalStartGame ==
    /\ ev_pc = "games"
    /\ Len(ev_game_rewards) < ev_n_games
    /\ ev_env' = EnvReset(ev_env)
    /\ ev_observation' = EnvObservation(EnvReset(ev_env))
    /\ ev_prev_memories' = [m \in Channels |-> <<0>>]
    /\ ev_t' = 0
    /\ ev_total_reward' = 0
    /\ ev_games' = Append(ev_games,
           [obs |-> EnvObservation(EnvReset(ev_env)),
            mem |-> [m \in Channels |-> <<0>>],
            rewards |-> <<>>,
            dones |-> <<>>])
    /\ ev_pc' = "play"
    /\ UNCHANGED <<ev_n_games, ev_t_max, ev_game_rewards>>
    /\ UNCHANGED <<poolvars, qvars>>

\* one pass of the while loop, env.step returning done; on break
\* game_rewards.append(total_reward)
EvalStep(done) ==
    /\ ev_pc = "play"
    /\ LET res == EvalAgentStep(ev_observation, ev_prev_memories)
           env == EnvStep(ev_env)
           reward == EnvReward(ev_env, res.action)
       IN /\ ev_env' = env
          /\ ev_observation' = EnvObservation(env)
          /\ ev_total_reward' = ev_total_reward + reward
          /\ ev_prev_memories' = res.mem
          /\ ev_games' = [ev_games EXCEPT ![Len(ev_games)] =
                 [@ EXCEPT !.rewards = Append(@, reward), !.dones = Append(@, done)]]
          /\ IF BreakGame(done, ev_t, ev_t_max)
             THEN /\ ev_game_rewards' = Append(ev_game_rewards, ev_total_reward + reward)
                  /\ ev_pc' = "games"
                  /\ ev_t' = ev_t
             ELSE /\ ev_t' = ev_t + 1
                  /\ UNCHANGED <<ev_game_rewards, ev_pc>>
    /\ UNCHANGED <<ev_n_games, ev_t_max>>
    /\ UNCHANGED <<poolvars, qvars>>

\* the for loop is exhausted: return game_rewards
EvalReturn ==
    /\ ev_pc = "games"
    /\ Len(ev_game_rewards) >= ev_n_games
    /\ ev_pc' = "returned"
    /\ UNCHANGED <<ev_n_games, ev_t_max, ev_env, ev_observation, ev_prev_memories,
                   ev_t, ev_total_reward, ev_game_rewards, ev_games>>
    /\ UNCHANGED <<poolvars, qvars>>

NextE ==
    \/ EvalBegin
    \/ EvalStartGame
    \/ \E done \in BOOLEAN : EvalStep(done)
    \/ EvalReturn

\* evaluate is sequential code: while its calls return, it goes on
SpecE == InitE /\ [][NextE]_vars /\ WF_vars(NextE)

\* ------------------------------------------------- properties of the pool
Events(op, t, s) ==
    {j \in 1..Len(calls) : calls[j].op = op /\ calls[j].tick = t /\ calls[j].slot = s}

AgentEvent(t) == calls[CHOOSE j \in Events("agent", t, 0) : TRUE]

StepEvent(t, s) == calls[CHOOSE j \in Events("step", t, s) : TRUE]

DoneAt(t, s) == Events("step", t, s) # {} /\ StepEvent(t, s).ret.done

\* the call made last; every call is the last one in the state that follows it
Last == calls[Len(calls)]

AgentJustCalled == Len(calls) > 0 /\ Last.op = "agent"

\* C1: a slot whose step() reported done at tick t is fed, at tick t+1, the
\* observation of a reset() made during tick t after that step (not the
\* observation the step returned) and all-zero memory in every channel; the
\* same values are what the pool stores once tick t is appended.
C1_ResetOnDone ==
    /\ \A s \in Slots :
          (AgentJustCalled /\ Last.tick > 1 /\ DoneAt(Last.tick - 1, s)) =>
             /\ \E r \in Events("reset", Last.tick - 1, s) :
                   /\ \A q \in Events("step", Last.tick - 1, s) : q < r
                   /\ calls[r].ret = Last.args.obs[s]
             /\ Last.args.obs[s] # StepEvent(Last.tick - 1, s).ret.obs
             /\ \A m \in Channels : Last.args.mem[m][s] = 0
    /\ \A s \in Slots :
          (i >= 1 /\ Len(history_log) = i /\ DoneAt(i, s)) =>
             /\ \E r \in Events("reset", i, s) : calls[r].ret = prev_observations[s]
             /\ prev_observations[s] # StepEvent(i, s).ret.obs
             /\ \A m \in Channels : prev_memory_states[m][s] = 0

C1_Witness ==
    \E s \in Slots :
        /\ AgentJustCalled /\ Last.tick > 1
        /\ DoneAt(Last.tick - 1, s)
        /\ \E m \in Channels : AgentEvent(Last.tick - 1).ret.mem[m][s] # 0

\* C2: when a step() or reset() raises during a tick, either no environment
\* was advanced and the pool is as it was when the tick began, or the whole
\* tick was carried out and appended.
C2_TickAtomicOnFailure ==
    (pc = "idle" /\ outcome = "raised") =>
        \/ /\ envs = tick_start.envs
           /\ prev_observations = tick_start.prev_observations
           /\ prev_memory_states = tick_start.prev_memory_states
        \/ /\ \A s \in Slots : Events("step", i + 1, s) # {}
           /\ Len(history_log) = i + 1
           /\ prev_observations = new_observations

\* C3: is_alive[s, t] is 0 exactly when env s's step() of tick t reported
\* done and 1 otherwise.
C3_AliveIsComplementOfDone ==
    outcome = "returned" =>
        \A s \in Slots : \A t \in 1..n_steps :
            /\ result.is_alive_log[s][t] \in {0, 1}
            /\ (result.is_alive_log[s][t] = 0) <=> StepEvent(t, s).ret.done

C3_Witness ==
    /\ outcome = "returned"
    /\ n_steps = 3
    /\ result.is_alive_log[1] = <<1, 0, 1>>
    /\ StepEvent(2, 1).ret.done /\ ~StepEvent(3, 1).ret.done

\* C6: a slot whose step() did not report done at tick t is fed, at tick
\* t+1, the observation that step returned and the memory the agent
\* returned for it at tick t, whatever happened to the other slots.
C6_OtherSlotsUntouched ==
    /\ \A s \in Slots :
          (AgentJustCalled /\ Last.tick > 1 /\ ~DoneAt(Last.tick - 1, s)) =>
             /\ Last.args.obs[s] = StepEvent(Last.tick - 1, s).ret.obs
             /\ \A m \in Channels :
                   Last.args.mem[m][s] = AgentEvent(Last.tick - 1).ret.mem[m][s]
    /\ \A s \in Slots :
          (i >= 1 /\ Len(history_log) = i /\ ~DoneAt(i, s)) =>
             /\ prev_observations[s] = StepEvent(i, s).ret.obs
             /\ \A m \in Channels :
                   prev_memory_states[m][s] = AgentEvent(i).ret.mem[m][s]

C6_Witness ==
    \E s, s2 \in Slots :
        /\ AgentJustCalled /\ Last.tick > 1
        /\ ~DoneAt(Last.tick - 1, s)
        /\ DoneAt(Last.tick - 1, s2)
        /\ \E m \in Channels : Last.args.mem[m][s] # 0

LoopFinished == pc = "return" \/ (pc = "idle" /\ outcome \in {"returned", "value_error"})

\* C9: interact(n_steps) calls the agent and each environment's step()
\* n_steps times, tick after tick, the agent call of a tick coming after all
\* steps and resets of the tick before, and calls reset() once for each tick
\* at which the environment reported done.
C9_CallCounts ==
    /\ Len(calls) >= 1 => (calls[1].op = "agent" /\ calls[1].tick = 1)
    /\ Len(calls) >= 2 =>
          IF Last.op = "agent"
          THEN Last.tick = calls[Len(calls) - 1].tick + 1
          ELSE Last.tick = calls[Len(calls) - 1].tick
    /\ \A s \in Slots :
          (AgentJustCalled /\ Last.tick > 1) =>
             /\ Cardinality(Events("step", Last.tick - 1, s)) = 1
             /\ Cardinality(Events("reset", Last.tick - 1, s)) =
                   IF DoneAt(Last.tick - 1, s) THEN 1 ELSE 0
    /\ LoopFinished =>
          /\ Cardinality({j \in 1..Len(calls) : calls[j].op = "agent"}) = n_steps
          /\ \A t \in 1..n_steps : Cardinality(Events("agent", t, 0)) = 1
          /\ \A s \in Slots :
                /\ Cardinality({j \in 1..Len(calls) :
                                   calls[j].op = "step" /\ calls[j].slot = s}) = n_steps
                /\ \A t \in 1..n_steps :
                      /\ Cardinality(Events("step", t, s)) = 1
                      /\ Cardinality(Events("reset", t, s)) =
                            IF DoneAt(t, s) THEN 1 ELSE 0
                /\ Cardinality({j \in 1..Len(calls) :
                                   calls[j].op = "reset" /\ calls[j].slot = s}) =
                      Cardinality({t \in 1..n_steps : DoneAt(t, s)})

C9_Witness ==
    /\ outcome = "returned"
    /\ n_steps = MaxSteps
    /\ \E s \in Slots : Cardinality({t \in 1..n_steps : DoneAt(t, s)}) >= 2

\* the returned tensors are [slot, tick] and hold what the calls of that
\* tick took and gave for that slot; info_log is [tick][slot]
TrajectoryShape ==
    /\ \A f \in {"observation_log", "action_log", "reward_log", "is_alive_log"} :
          /\ DOMAIN result[f] = Slots
          /\ \A s \in Slots : DOMAIN result[f][s] = 1..n_steps
    /\ DOMAIN result.memories_log = Channels
    /\ \A m \in Channels :
          /\ DOMAIN result.memories_log[m] = Slots
          /\ \A s \in Slots : DOMAIN result.memories_log[m][s] = 1..n_steps
    /\ DOMAIN result.info_log = 1..n_steps
    /\ \A t \in 1..n_steps : DOMAIN result.info_log[t] = Slots
    /\ \A s \in Slots : \A t \in 1..n_steps :
          /\ result.observation_log[s][t] = AgentEvent(t).args.obs[s]
          /\ result.action_log[s][t] = AgentEvent(t).ret.actions[s]
          /\ result.reward_log[s][t] = StepEvent(t, s).ret.reward
          /\ result.is_alive_log[s][t] = IF StepEvent(t, s).ret.done THEN 0 ELSE 1
          /\ result.info_log[t][s] = StepEvent(t, s).ret.info
          /\ \A m \in Channels :
                result.memories_log[m][s][t] =
                    IF StepEvent(t, s).ret.done THEN 0 ELSE AgentEvent(t).ret.mem[m][s]

\* C10 as stated: for every horizon, interact returns tensors whose leading
\* axes are [slot, tick], info_log being [tick][slot].
C10_ShapeForAllHorizons ==
    (pc = "idle" /\ outcome \in {"returned", "value_error"}) =>
        (outcome = "returned" /\ TrajectoryShape)

\* What holds of C10: for every horizon of at least one tick, interact
\* returns tensors whose leading axes are [slot, tick], info_log being
\* [tick][slot].
C10_ShapeForPositiveHorizons ==
    (pc = "idle" /\ outcome \in {"returned", "value_error"} /\ n_steps >= 1) =>
        (outcome = "returned" /\ TrajectoryShape)

C10_Witness ==
    /\ outcome = "returned"
    /\ n_steps = MaxSteps
    /\ \E s \in Slots : result.action_log[s] # result.action_log[1]
    /\ \E s \in Slots : \E t \in 1..n_steps : result.is_alive_log[s][t] = 0

\* ------------------------------------------- properties of the objective
AllOnes == [s \in QSlots |-> [t \in QTickIds |-> 1]]

TargetOf(in) == IF in.Qvalues_target.kind = "none" THEN in.Qvalues ELSE in.Qvalues_target.val

\* rewards + gamma * max over actions of the Q-values of the next tick, the
\* tick after the last being qvalues_after_end
Bootstrap(in, s, t) ==
    in.rewards[s][t] + Discount(in.gamma_or_gammas, s, t) *
        MaxOf({IF t < QTicks THEN TargetOf(in)[s][t + 1][a]
               ELSE IF in.qvalues_after_end.kind = "zeros" THEN 0
               ELSE in.qvalues_after_end.val[s][1][a] : a \in ActionIds})

MaskedForcedZeros ==
    /\ q_pc = "done"
    /\ q_in.is_alive.kind = "mask"
    /\ q_in.force_qvalues_after_end
    /\ q_in.qvalues_after_end.kind = "zeros"

\* C4: with a mask, force_qvalues_after_end and qvalues_after_end="zeros",
\* the reference at a slot's end tick is the reward of that tick alone, and
\* at every other position it is rewards + gamma * max of the next Q-values.
C4_EndReferenceIsReward ==
    MaskedForcedZeros =>
        /\ q_out.ok
        /\ \A s \in QSlots : \A t \in QTickIds :
              q_out.reference[s][t] =
                  IF t = EndTick(q_in.is_alive.val[s])
                  THEN q_in.rewards[s][t]
                  ELSE Bootstrap(q_in, s, t)

C4_Witness ==
    /\ MaskedForcedZeros
    /\ \E s \in QSlots :
          /\ EndTick(q_in.is_alive.val[s]) < QTicks
          /\ Bootstrap(q_in, s, EndTick(q_in.is_alive.val[s]))
                # q_in.rewards[s][EndTick(q_in.is_alive.val[s])]
          /\ q_out.reference[s][EndTick(q_in.is_alive.val[s])]
                = q_in.rewards[s][EndTick(q_in.is_alive.val[s])]

\* C5: with is_alive all ones the objective returns what it returns with
\* is_alive="always", at every position but a cropped last tick.
C5_AllAliveEqualsAlways ==
    (q_pc = "done" /\ q_in.is_alive.kind = "mask" /\ q_in.is_alive.val = AllOnes) =>
        LET always == get_elementwise_objective(
                          [q_in EXCEPT !.is_alive = [kind |-> "always"]])
        IN /\ q_out.ok = always.ok
           /\ q_out.ok =>
                 \A s \in QSlots : \A t \in QTickIds :
                     (q_in.crop_last /\ t = QTicks) \/ q_out.loss[s][t] = always.loss[s][t]

\* C7: with crop_last the loss of the last tick is 0 for every slot, and the
\* loss of every other tick is what it is without crop_last.
C7_CropLastZero ==
    (q_pc = "done" /\ q_in.crop_last /\ q_out.ok) =>
        LET uncropped == get_elementwise_objective([q_in EXCEPT !.crop_last = FALSE])
        IN \A s \in QSlots :
              /\ q_out.loss[s][QTicks] = 0
              /\ \A t \in 1..(QTicks - 1) : q_out.loss[s][t] = uncropped.loss[s][t]

C7_Witness ==
    /\ q_pc = "done" /\ q_in.crop_last /\ q_out.ok
    /\ \E s \in QSlots :
          /\ get_elementwise_objective([q_in EXCEPT !.crop_last = FALSE]).loss[s][QTicks] # 0
          /\ q_out.loss[s][QTicks] = 0
          /\ \E t \in 1..(QTicks - 1) : q_out.loss[s][t] # 0

\* C8: with a mask the loss is 0 wherever is_alive is 0, and wherever
\* is_alive is 1 (but at a cropped last tick) it is the squared difference
\* of the reference and the Q-value of the action taken.
C8_DeadTicksHaveNoLoss ==
    (q_pc = "done" /\ q_in.is_alive.kind = "mask" /\ q_out.ok) =>
        \A s \in QSlots : \A t \in QTickIds :
            /\ q_in.is_alive.val[s][t] = 0 => q_out.loss[s][t] = 0
            /\ (q_in.is_alive.val[s][t] = 1 /\ ~(q_in.crop_last /\ t = QTicks)) =>
                  q_out.loss[s][t] =
                      (q_out.reference[s][t] - q_in.Qvalues[s][t][q_in.actions[s][t]])
                        * (q_out.reference[s][t] - q_in.Qvalues[s][t][q_in.actions[s][t]])

C8_Witness ==
    /\ q_pc = "done" /\ q_in.is_alive.kind = "mask" /\ q_out.ok
    /\ \E s \in QSlots : \E t, u \in 1..(QTicks - 1) :
          /\ q_in.is_alive.val[s][t] = 0
          /\ q_out.reference[s][t] # q_in.Qvalues[s][t][q_in.actions[s][t]]
          /\ q_out.loss[s][t] = 0
          /\ q_in.is_alive.val[s][u] = 1
          /\ q_out.loss[s][u] # 0

\* ---- get_reference_Qvalues called on its own ----

ReferenceComputed == q_pc = "ref_done"

\* the Q-values that follow tick t of slot s: those of tick t + 1, and after
\* the last tick qvalues_after_end, zeros by default
NextQvalues(in, s, t) ==
    IF t < Len(in.rewards[s]) THEN in.Qvalues[s][t + 1]
    ELSE IF in.qvalues_after_end.kind = "zeros" THEN [a \in ActionIds |-> 0]
    ELSE in.qvalues_after_end.val[s][1]

OtherActions(in) ==
    [s \in DOMAIN in.actions |-> [t \in DOMAIN in.actions[s] |-> 1 - in.actions[s][t]]]

\* C11: with the default max aggregation get_reference_Qvalues returns at
\* every slot and tick rewards + gamma * max over actions of the Q-values of
\* the next tick, the last tick using qvalues_after_end or zeros; the result
\* does not depend on the actions committed, and the inputs stay as given.
C11_ReferenceIsBootstrap ==
    /\ [](  (ReferenceComputed /\ q_in.aggregation_function = "max") =>
             /\ q_out.ok
             /\ \A s \in DOMAIN q_in.rewards : \A t \in DOMAIN q_in.rewards[s] :
                   q_out.reference[s][t] =
                       q_in.rewards[s][t] + Discount(q_in.gamma_or_gammas, s, t)
                           * MaxOf({NextQvalues(q_in, s, t)[a] : a \in ActionIds})
             /\ q_out.reference =
                   get_reference_Qvalues(q_in.Qvalues, OtherActions(q_in), q_in.rewards,
                       q_in.gamma_or_gammas, q_in.qvalues_after_end,
                       q_in.aggregation_function))
    /\ [][q_in' = q_in]_vars

C11_Witness ==
    /\ ReferenceComputed /\ q_in.aggregation_function = "max" /\ q_out.ok
    /\ q_in.qvalues_after_end.kind = "tensor"
    /\ q_in.gamma_or_gammas.kind = "tensor"
    /\ Len(q_in.rewards) = QBatch /\ Len(q_in.rewards[1]) = QTicks
    /\ \E s \in QSlots :
          /\ q_out.reference[s][1] # q_in.rewards[s][1]
          /\ q_out.reference[s][QTicks] # q_in.rewards[s][QTicks]
          /\ \E a, b \in ActionIds : q_in.Qvalues[s][2][a] # q_in.Qvalues[s][2][b]

\* gamma_or_gammas as a [slot][tick] tensor holding the scalar everywhere
ConstantGammas(in) ==
    [kind |-> "tensor",
     val |-> [s \in DOMAIN in.rewards |-> [t \in DOMAIN in.rewards[s] |->
                 in.gamma_or_gammas.val]]]

\* C16: a scalar discount g and a [slot][tick] tensor holding g everywhere
\* give the same reference Q-values.
C16_ScalarEqualsConstantTensor ==
    (ReferenceComputed /\ q_in.gamma_or_gammas.kind = "scalar" /\ q_out.ok) =>
        q_out.reference =
            get_reference_Qvalues(q_in.Qvalues, q_in.actions, q_in.rewards,
                ConstantGammas(q_in), q_in.qvalues_after_end,
                q_in.aggregation_function)

C16_Witness ==
    /\ ReferenceComputed /\ q_in.gamma_or_gammas.kind = "scalar" /\ q_out.ok
    /\ q_in.aggregation_function = "max"
    /\ q_in.gamma_or_gammas.val > 1
    /\ \E s \in DOMAIN q_in.rewards : \E t \in DOMAIN q_in.rewards[s] :
          q_out.reference[s][t] # q_in.rewards[s][t]

\* C15: an aggregation_function that keeps the action axis makes the call
\* fail; no reference is returned for it.
C15_NonReducingRejected ==
    (ReferenceComputed /\ q_in.aggregation_function = "identity") => ~q_out.ok

\* C12: with a mask, force_qvalues_after_end and a qvalues_after_end tensor,
\* the reference at a slot's end tick is the reward of that tick plus the
\* discount of that slot and tick times the max of qvalues_after_end[slot].
C12_EndReferenceUsesAfterEnd ==
    (/\ q_pc = "done"
     /\ q_in.is_alive.kind = "mask"
     /\ q_in.force_qvalues_after_end
     /\ q_in.qvalues_after_end.kind = "tensor") =>
        /\ q_out.ok
        /\ \A s \in QSlots :
              LET end == EndTick(q_in.is_alive.val[s])
              IN q_out.reference[s][end] =
                     q_in.rewards[s][end] + Discount(q_in.gamma_or_gammas, s, end)
                         * MaxOf({q_in.qvalues_after_end.val[s][1][a] : a \in ActionIds})

\* the same for a scalar discount only
C12_ScalarDiscount ==
    q_in.given /\ q_in.gamma_or_gammas.kind = "scalar" => C12_EndReferenceUsesAfterEnd

\* ---- the trajectory and the pool across calls ----

\* an observation returned by the reset() that follows a termination
FreshAfterTermination(obs) == obs.age = 0 /\ obs.ep > 1

\* C13 as stated: is_alive[s, t] is 0 exactly when slot s had terminated
\* before tick t, its observation of tick t being the first of the episode
\* begun by the reset, and 1 when the episode was running before tick t.
C13_AliveBeforeTick ==
    outcome = "returned" =>
        \A s \in Slots : \A t \in 1..n_steps :
            (result.is_alive_log[s][t] = 0) <=>
                FreshAfterTermination(result.observation_log[s][t])

\* C13 amended: is_alive[s, t] is 0 exactly when the step of tick t itself
\* reported done; observations[s, t] is then the observation the agent
\* acted on before that step, and the observation of the reset made at tick
\* t, the first of the next episode, is the one logged at tick t + 1.
C13_AliveUntilDoneObserved ==
    outcome = "returned" =>
        \A s \in Slots : \A t \in 1..n_steps :
            LET obs == result.observation_log[s][t]
            IN /\ obs = AgentEvent(t).args.obs[s]
               /\ IF result.is_alive_log[s][t] = 0
                  THEN /\ StepEvent(t, s).ret.done
                       /\ \A r \in Events("reset", t, s) : calls[r].ret # obs
                       /\ t < n_steps =>
                             \E r \in Events("reset", t, s) :
                                 /\ calls[r].ret = result.observation_log[s][t + 1]
                                 /\ FreshAfterTermination(calls[r].ret)
                  ELSE /\ ~StepEvent(t, s).ret.done
                       /\ t < n_steps =>
                             result.observation_log[s][t + 1] = StepEvent(t, s).ret.obs

C13_Witness ==
    /\ outcome = "returned"
    /\ \E s \in Slots : \E t \in 2..(n_steps - 1) :
          /\ result.is_alive_log[s][t] = 0
          /\ result.is_alive_log[s][t - 1] = 1
          /\ ~FreshAfterTermination(result.observation_log[s][t])
          /\ result.is_alive_log[s][t + 1] = 1
          /\ FreshAfterTermination(result.observation_log[s][t + 1])

\* C14: when a step() or reset() raises at some tick the call is over without
\* a trajectory: nothing is returned, the ticks appended so far are dropped
\* with the call, and no agent step or environment call of a later tick is
\* made.
C14_NoTrajectoryOnFailure ==
    outcome = "raised" =>
        /\ pc = "idle"
        /\ result = NoResult
        /\ Len(history_log) = i
        /\ Last.tick = i + 1
        /\ \A j \in 1..Len(calls) : calls[j].tick <= i + 1

C14_Witness ==
    /\ outcome = "raised"
    /\ pc = "idle"
    /\ Len(history_log) >= 1
    /\ i + 1 < n_steps
    /\ Last.op = "reset"

\* what tick t of the running call left for slot s: the observation and the
\* memory of channel m
LeftObservation(t, s) ==
    IF DoneAt(t, s)
    THEN calls[CHOOSE r \in Events("reset", t, s) : TRUE].ret
    ELSE StepEvent(t, s).ret.obs

LeftMemory(t, m, s) == IF DoneAt(t, s) THEN 0 ELSE AgentEvent(t).ret.mem[m][s]

AgentCalledNow == Len(calls') = Len(calls) + 1 /\ calls'[Len(calls')].op = "agent"

\* C17: the agent consumes at every tick the pool's prev_observations and
\* prev_memory_states as they are; these are the construction-time reset
\* observations and all-zero memory at the pool's first tick, what the tick
\* just appended left after every later tick, and starting a call changes
\* neither them nor the environments; observations[s, t] of the trajectory
\* is the observation fed at tick t.
C17_PoolFeedsTheAgent ==
    /\ [](  /\ (i >= 1 /\ Len(history_log) = i /\ pc \in {"agent", "return", "idle"}) =>
                 /\ \A s \in Slots : prev_observations[s] = LeftObservation(i, s)
                 /\ \A m \in Channels : \A s \in Slots :
                       prev_memory_states[m][s] = LeftMemory(i, m, s)
            /\ outcome = "returned" =>
                 \A s \in Slots : \A t \in 1..n_steps :
                     result.observation_log[s][t] = AgentEvent(t).args.obs[s]
            /\ ticks_used = 0 =>
                 /\ prev_observations = [s \in Slots |-> EnvObservation(EnvReset(make_env))]
                 /\ prev_memory_states = [m \in Channels |-> [s \in Slots |-> 0]])
    /\ [][  /\ AgentCalledNow =>
                 calls'[Len(calls')].args =
                     [obs |-> prev_observations, mem |-> prev_memory_states]
            /\ (pc = "idle" /\ pc' # "idle") =>
                 UNCHANGED <<envs, prev_observations, prev_memory_states>>]_vars

C17_Witness ==
    /\ AgentJustCalled
    /\ Last.tick = 1
    /\ ticks_used > 1
    /\ \E s \in Slots : Last.args.obs[s].age > 0
    /\ \E m \in Channels : \E s \in Slots : Last.args.mem[m][s] # 0

\* C19: the memory logged for slot s at tick t is what the agent returned at
\* tick t with the zeroing of that tick applied: zero in every channel where
\* is_alive[s, t] is 0; it is still so after every later tick has been
\* carried out and zeroed, and it is what the trajectory returns.
C19_MemorySnapshots ==
    /\ pc \in {"agent", "return", "idle"} =>
          \A t \in 1..Len(history_log) : \A m \in Channels : \A s \in Slots :
              history_log[t].memories[m][s] = LeftMemory(t, m, s)
    /\ outcome = "returned" =>
          \A m \in Channels : \A s \in Slots : \A t \in 1..n_steps :
              /\ result.memories_log[m][s][t] = LeftMemory(t, m, s)
              /\ result.is_alive_log[s][t] = 0 => result.memories_log[m][s][t] = 0

C19_Witness ==
    /\ outcome = "returned"
    /\ \E m \in Channels : \E s \in Slots : \E t, u \in 1..n_steps :
          /\ t < u
          /\ result.is_alive_log[s][t] = 1
          /\ result.memories_log[m][s][t] # 0
          /\ result.is_alive_log[s][u] = 0
          /\ AgentEvent(u).ret.mem[m][s] # 0
          /\ result.memories_log[m][s][u] = 0

\* ---- the objective on the trajectory of the pool ----

\* RunTicks gives the pool that the actions of interact reach: whenever the
\* loop of the pool's first call has finished, the pool is RunTicks of the
\* done flags reported (slots of the same parity reporting the same flags)
RunTicksAgrees ==
    (/\ pc = "return" /\ n_steps >= 1 /\ ticks_used = n_steps /\ i = n_steps
     /\ \A t \in 1..n_steps : \A s \in Slots :
           history_log[t].is_done[s] = history_log[t].is_done[2 - (s % 2)]) =>
        \E run \in {RunTicks([par \in {0, 1} |-> [t \in 1..TrainSteps |->
                        IF t <= n_steps THEN history_log[t].is_done[2 - par]
                        ELSE FALSE]], n_steps)} :
            /\ envs = run.envs
            /\ prev_observations = run.prev_observations
            /\ prev_memory_states = run.prev_memory_states
            /\ actions = run.actions
            /\ new_memory_states = run.prev_memory_states
            /\ step_results = run.step_results
            /\ new_observations = run.prev_observations
            /\ history_log = run.history_log
            /\ tick_start = run.tick_start

Trained == pc = "idle" /\ outcome = "returned" /\ q_pc = "done"

\* slot s reported done at tick t and not at tick t - 1
TerminatesAt(s, t) == history_log[t].is_done[s] /\ ~history_log[t - 1].is_done[s]

FirstTermination(s, t) ==
    \A u \in 1..(t - 2) : ~(~history_log[u].is_done[s] /\ history_log[u + 1].is_done[s])

RECURSIVE SumOf(_)
SumOf(seq) == IF seq = <<>> THEN 0 ELSE Head(seq) + SumOf(Tail(seq))

====
